---- MODULE Spec2Model ----
(***************************************************************************)
(* Pomodoro timer: the countdown engine (PomodoroTimer, src/app.py) and    *)
(* the handlers of the main window that drive it (MainWindow, src/app.py). *)
(*                                                                         *)
(* The engine's methods are operators over the record of its fields; the   *)
(* actions are either direct method calls (SpecEngine, the engine used as  *)
(* a component) or the handlers of the application (Spec).                 *)
(***************************************************************************)
EXTENDS Integers, Sequences, FiniteSets, TLC

\* ------------------------------------------------------------------ bounds
\* Durations and cadence a settings file or a settings entry may hold.
MaxDuration == 2
MaxCadence == 2
\* Caps on the two unbounded counters.
MaxCompleted == 2
MaxSessions == 2
\* Calendar dates (days since a Monday) the clock may show and the records
\* of a data file may bear.
MaxDate == 0
\* The statistics: the dates a record may bear and the clock may show, and
\* how far the week view is moved either way.
MaxStatsDate == 7
MaxOffset == 1

\* -------------------------------------------------------- program constants
\* `* 60`: minutes to seconds (reset, _get_duration_for_session).
SecondsPerMinute == 60

States == {"idle", "running", "paused"}
SessionTypes == {"work", "short_break", "long_break"}
Events == {"work_complete", "break_complete"}
None == "none"
\* An attribute that no object has been assigned to yet.
Unset == [k \in {} |-> None]

Durations == 1..MaxDuration
Cadences == 1..MaxCadence
Dates == 0..MaxDate

VARIABLES
    timer,      \* PomodoroTimer: state, session_type, time_left, completed_sessions
    settings,   \* app_data["settings"], the dict the engine shares
    sessions,   \* app_data["sessions"], the dates of the stored records
    result,     \* the value returned by the last call (None for a void one)
    op,         \* history: the last method called on the engine, and its argument
    run,        \* history: the countdown since it was last loaded
    fired,      \* history: an event was returned since the countdown was loaded
    pc,         \* MainWindow: "boot" before __init__, then "ready" or "crashed"
    load,       \* history: what __init__ found wrong with the data file
    warnings,   \* the warnings _load_data has shown
    today,      \* the date the clock shows (datetime.now().date())
    stats_window, \* the StatsWindow last opened
    before_pause \* history: the engine as pause() found it running, and the
                 \* calls since

vars == <<timer, settings, sessions, result, op, run, fired,
          pc, load, warnings, today, stats_window, before_pause>>

\* What start-up sets and no handler changes afterwards.
startup == <<pc, load, warnings>>

\* The history variables record direct calls of the engine's methods; the
\* handlers of the application leave them alone.
history == <<op, run, fired, before_pause>>

\* ------------------------------------------------------------ PomodoroTimer

\* Faulty variants of the methods follow the pattern <method>_<fault>; each
\* checked property has one that it rejects.

\* reset() that forgets the conversion to seconds.
reset_in_minutes(t, s) ==
    [state |-> "idle",
     session_type |-> "work",
     time_left |-> s.work_duration,
     completed_sessions |-> 0]

\* reset() that keeps the count of completed sessions.
reset_keeps_count(t, s) ==
    [state |-> "idle",
     session_type |-> "work",
     time_left |-> s.work_duration * SecondsPerMinute,
     completed_sessions |-> t.completed_sessions]

reset(t, s) ==
    [state |-> "idle",
     session_type |-> "work",
     time_left |-> s.work_duration * SecondsPerMinute,
     completed_sessions |-> 0]

\* start() that resumes nothing: it starts an idle engine only.
start_only_from_idle(t) ==
    IF t.state = "idle" THEN [t EXCEPT !.state = "running"] ELSE t

start(t) ==
    IF t.state # "running" THEN [t EXCEPT !.state = "running"] ELSE t

\* pause() without its guard.
pause_any_state(t) ==
    [t EXCEPT !.state = "paused"]

pause(t) ==
    IF t.state = "running" THEN [t EXCEPT !.state = "paused"] ELSE t

key_map ==
    [work |-> "work_duration", short_break |-> "short_break", long_break |-> "long_break"]

get_duration_for_session(t, s) ==
    s[key_map[t.session_type]] * SecondsPerMinute

\* set_session() that leaves the state as it was.
set_session_keeps_state(t, s, session_type) ==
    LET t1 == [t EXCEPT !.session_type = session_type]
    IN  [t1 EXCEPT !.time_left = get_duration_for_session(t1, s)]

set_session(t, s, session_type) ==
    LET t1 == [t EXCEPT !.state = "idle", !.session_type = session_type]
    IN  [t1 EXCEPT !.time_left = get_duration_for_session(t1, s)]

\* The steps of tick() after its guard, with the count a completion adds to
\* completed_sessions for a work session and for a break.
countdown(t, work_adds, break_adds) ==
    LET t1 == [t EXCEPT !.time_left = t.time_left - 1]
    IN  IF t1.time_left > 0
        THEN [timer |-> t1, result |-> None]
        ELSE IF t1.session_type = "work"
             THEN [timer |-> [t1 EXCEPT !.state = "idle",
                                        !.completed_sessions = t1.completed_sessions + work_adds],
                   result |-> "work_complete"]
             ELSE [timer |-> [t1 EXCEPT !.state = "idle",
                                        !.completed_sessions = t1.completed_sessions + break_adds],
                   result |-> "break_complete"]

\* tick() that counts a finished break as a completed session.
tick_counts_breaks(t) ==
    IF t.state # "running" \/ t.time_left <= 0
    THEN [timer |-> t, result |-> None]
    ELSE countdown(t, 1, 1)

\* tick() that does not count a finished work session.
tick_counts_nothing(t) ==
    IF t.state # "running" \/ t.time_left <= 0
    THEN [timer |-> t, result |-> None]
    ELSE countdown(t, 0, 0)

\* tick() without the `time_left <= 0` half of its guard.
tick_no_zero_guard(t) ==
    IF t.state # "running"
    THEN [timer |-> t, result |-> None]
    ELSE countdown(t, 1, 0)

\* tick() that stops only for an idle engine, not for a paused one.
tick_ignores_pause(t) ==
    IF t.state = "idle" \/ t.time_left <= 0
    THEN [timer |-> t, result |-> None]
    ELSE countdown(t, 1, 0)

\* tick() changes the engine and returns a value: both are given.
tick(t) ==
    IF t.state # "running" \/ t.time_left <= 0
    THEN [timer |-> t, result |-> None]
    ELSE LET t1 == [t EXCEPT !.time_left = t.time_left - 1]
         IN  IF t1.time_left > 0
             THEN [timer |-> t1, result |-> None]
             ELSE IF t1.session_type = "work"
                  THEN [timer |-> [t1 EXCEPT !.state = "idle",
                                             !.completed_sessions = t1.completed_sessions + 1],
                        result |-> "work_complete"]
                  ELSE [timer |-> [t1 EXCEPT !.state = "idle"],
                        result |-> "break_complete"]

\* get_next_break_type() without its first rule.
get_next_break_type_no_rule1(t, s) ==
    IF t.completed_sessions % s.sessions_per_long_break = 0
    THEN "long_break"
    ELSE "short_break"

\* get_next_break_type() whose first rule also covers the first completion.
get_next_break_type_first_short(t, s) ==
    IF t.completed_sessions <= 1
    THEN "short_break"
    ELSE IF t.completed_sessions % s.sessions_per_long_break = 0
         THEN "long_break"
         ELSE "short_break"

get_next_break_type(t, s) ==
    LET sessions_for_long_break == s.sessions_per_long_break
    IN  IF t.completed_sessions = 0
        THEN "short_break"
        ELSE IF t.completed_sessions % sessions_for_long_break = 0
             THEN "long_break"
             ELSE "short_break"

\* ------------------------------------------------------------------ history

NoRun == [phase |-> "none", by |-> "none", D |-> 0, c0 |-> 0, k |-> 0, ev |-> 0]

Loaded(by, t, s) ==
    [phase |-> "loaded", by |-> by,
     D |-> s[key_map[t.session_type]], c0 |-> t.completed_sessions,
     k |-> 0, ev |-> 0]

Op(name, arg) == [name |-> name, arg |-> arg]

\* -------------------------------------------------------------------- Init

SettingsValues ==
    [work_duration : Durations, short_break : Durations, long_break : Durations,
     sessions_per_long_break : Cadences, auto_start : BOOLEAN]

\* PomodoroTimer.__init__: the fields are those reset() sets.
NewTimer(s) == reset([state |-> "idle", session_type |-> "work",
                      time_left |-> 0, completed_sessions |-> 0], s)

\* The engine built over a settings dict (PomodoroTimer(settings)).
InitEngine ==
    /\ settings \in {s \in SettingsValues : ~s.auto_start}
    /\ timer = NewTimer(settings)
    /\ sessions = <<>>
    /\ result = None
    /\ op = Op("init", None)
    /\ run = NoRun
    /\ fired = FALSE
    /\ pc = "ready"
    /\ load = "ok"
    /\ warnings = 0
    /\ today \in Dates
    /\ stats_window = Unset
    /\ before_pause = Unset

\* ------------------------------------------- the engine's methods, called

Call_reset ==
    /\ timer' = reset(timer, settings)
    /\ result' = None
    /\ op' = Op("reset", timer.state)
    /\ before_pause' = Unset
    /\ run' = Loaded("reset", timer', settings)
    /\ fired' = FALSE
    /\ UNCHANGED <<settings, sessions, startup, today, stats_window>>

Call_start ==
    /\ timer' = start(timer)
    /\ result' = None
    /\ op' = Op("start", timer.state)
    /\ before_pause' = IF before_pause # Unset /\ ~before_pause.resumed
                       THEN [before_pause EXCEPT !.resumed = TRUE]
                       ELSE Unset
    /\ run' = IF run.phase = "loaded" THEN [run EXCEPT !.phase = "started"] ELSE NoRun
    /\ UNCHANGED <<settings, sessions, fired, startup, today, stats_window>>

Call_pause ==
    /\ timer' = pause(timer)
    /\ result' = None
    /\ op' = Op("pause", timer.state)
    /\ before_pause' = IF timer.state = "running"
                       THEN [timer |-> timer, ticked |-> FALSE, resumed |-> FALSE]
                       ELSE IF before_pause # Unset /\ ~before_pause.resumed
                            THEN before_pause
                            ELSE Unset
    /\ run' = NoRun
    /\ UNCHANGED <<settings, sessions, fired, startup, today, stats_window>>

Call_set_session ==
    \E session_type \in SessionTypes :
        /\ timer' = set_session(timer, settings, session_type)
        /\ result' = None
        /\ op' = Op("set_session",
                    [session_type |-> session_type,
                     from |-> timer.state,
                     mid |-> /\ 0 < timer.time_left
                             /\ timer.time_left < get_duration_for_session(timer, settings)])
        /\ run' = Loaded("set_session", timer', settings)
        /\ before_pause' = Unset
        /\ fired' = FALSE
        /\ UNCHANGED <<settings, sessions, startup, today, stats_window>>

Call_tick ==
    LET r == tick(timer)
    IN  /\ r.timer.completed_sessions <= MaxCompleted
        /\ timer' = r.timer
        /\ result' = r.result
        /\ op' = Op("tick", None)
        /\ before_pause' = IF before_pause # Unset /\ ~before_pause.resumed
                           THEN [before_pause EXCEPT !.ticked = TRUE]
                           ELSE Unset
        /\ run' = IF run.phase = "started" /\ run.k < run.D * SecondsPerMinute
                  THEN [run EXCEPT !.k = run.k + 1,
                                   !.ev = run.ev + (IF r.result = None THEN 0 ELSE 1)]
                  ELSE NoRun
        /\ fired' = (fired \/ r.result # None)
        /\ UNCHANGED <<settings, sessions, startup, today, stats_window>>

Call_get_next_break_type ==
    /\ result' = get_next_break_type(timer, settings)
    /\ op' = Op("get_next_break_type", None)
    /\ before_pause' = Unset
    /\ run' = NoRun
    /\ UNCHANGED <<timer, settings, sessions, fired, startup, today, stats_window>>

NextEngine ==
    \/ Call_reset
    \/ Call_start
    \/ Call_pause
    \/ Call_set_session
    \/ Call_tick
    \/ Call_get_next_break_type

SpecEngine == InitEngine /\ [][NextEngine]_vars

\* ---------------------------------------------------------- SettingsWindow

SettingKeys == {"work_duration", "short_break", "long_break", "sessions_per_long_break"}

\* What an entry box may hold when a key is released: text that int() turns
\* into a number (negative and zero included) or text it rejects.
EntryTexts ==
    [numeric : {TRUE}, value : (-1)..MaxDuration] \cup {[numeric |-> FALSE, value |-> 0]}

\* One pass of the loop body of _on_settings_change for one key: the stored
\* value after it (the entry itself reverts to the stored value on an error).
validated(s, key, text) ==
    IF text.numeric /\ text.value > 0
    THEN [s EXCEPT ![key] = text.value]
    ELSE s

\* The text of an entry nobody typed in: str() of the stored value.
str_of(value) == [numeric |-> TRUE, value |-> value]

\* _on_settings_change that reloads the countdown from the typed duration.
on_settings_change_reloads ==
    \E key \in SettingKeys, text \in EntryTexts :
        LET s1 == validated(settings, key, text)
        IN  /\ s1.sessions_per_long_break <= MaxCadence
            /\ settings' = s1
            /\ timer' = [timer EXCEPT !.time_left = get_duration_for_session(timer, s1)]
            /\ result' = None
            /\ UNCHANGED <<sessions, history, startup, today, stats_window>>

\* _on_settings_change: every entry is validated, the typed one and the three
\* that still show their stored values; then _save_data() hands the same
\* dict to the engine.
on_settings_change ==
    \E key \in SettingKeys, text \in EntryTexts :
        LET entry(k) == IF k = key THEN text ELSE str_of(settings[k])
            s1 == validated(settings, "work_duration", entry("work_duration"))
            s2 == validated(s1, "short_break", entry("short_break"))
            s3 == validated(s2, "long_break", entry("long_break"))
            s4 == validated(s3, "sessions_per_long_break", entry("sessions_per_long_break"))
        IN  /\ s4.sessions_per_long_break <= MaxCadence
            /\ settings' = s4
            /\ result' = None
            /\ UNCHANGED <<timer, sessions, history, startup, today, stats_window>>

toggle_auto_start ==
    /\ settings' = [settings EXCEPT !.auto_start = ~settings.auto_start]
    /\ result' = None
    /\ UNCHANGED <<timer, sessions, history, startup, today, stats_window>>

\* -------------------------------------------------------------- MainWindow

SessionLists == UNION {[1..n -> Dates] : n \in 0..MaxSessions}

\* MainWindow.__init__ with a data file that loads: its settings and its
\* records, and the engine built over the settings.
Init ==
    /\ settings \in SettingsValues
    /\ sessions \in SessionLists
    /\ timer = NewTimer(settings)
    /\ result = None
    /\ op = Op("init", None)
    /\ run = NoRun
    /\ fired = FALSE
    /\ pc = "ready"
    /\ load = "ok"
    /\ warnings = 0
    /\ today \in Dates
    /\ stats_window = Unset
    /\ before_pause = Unset

\* toggle_work that never leaves a break.
toggle_work_no_switch ==
    /\ timer' = IF timer.state = "running" THEN pause(timer) ELSE start(timer)
    /\ result' = None
    /\ UNCHANGED <<settings, sessions, history, startup, today, stats_window>>

toggle_work ==
    LET t1 == IF timer.session_type # "work"
              THEN set_session(timer, settings, "work")
              ELSE timer
    IN  /\ timer' = IF t1.state = "running" THEN pause(t1) ELSE start(t1)
        /\ result' = None
        /\ UNCHANGED <<settings, sessions, history, startup, today, stats_window>>

toggle_break ==
    LET t1 == IF timer.session_type = "work"
              THEN set_session(timer, settings, get_next_break_type(timer, settings))
              ELSE timer
    IN  /\ timer' = IF t1.state = "running" THEN pause(t1) ELSE start(t1)
        /\ result' = None
        /\ UNCHANGED <<settings, sessions, history, startup, today, stats_window>>

\* reset_timer that clears the records as well.
reset_timer_clears_records ==
    /\ timer' = reset(timer, settings)
    /\ sessions' = <<>>
    /\ result' = None
    /\ UNCHANGED <<settings, history, startup, today, stats_window>>

reset_timer ==
    /\ timer' = reset(timer, settings)
    /\ result' = None
    /\ UNCHANGED <<settings, sessions, history, startup, today, stats_window>>

\* reset_stats that does not wait for the answer.
reset_stats_unasked(confirmed) ==
    /\ sessions' = <<>>
    /\ result' = None
    /\ UNCHANGED <<timer, settings, history, startup, today, stats_window>>

\* reset_stats once the user has answered its confirmation dialog: clear()
\* empties the list in place, so every holder of the list sees it empty.
reset_stats_answered(confirmed) ==
    /\ sessions' = IF confirmed THEN <<>> ELSE sessions
    /\ result' = None
    /\ UNCHANGED <<timer, settings, history, startup, today, stats_window>>

reset_stats ==
    \E confirmed \in BOOLEAN : reset_stats_answered(confirmed)

\* The record written for every event, a finished break included.
record_completion_any_event(ss, res, now) ==
    IF res # None THEN Append(ss, now) ELSE ss

\* The record _update_loop writes: one for work_complete, none otherwise.
record_completion(ss, res, now) ==
    IF res = "work_complete" THEN Append(ss, now) ELSE ss

\* The "next" of completion_details, with a break that is always short.
next_session_always_short(res, t, s) ==
    IF res = "work_complete" THEN "short_break" ELSE "work"

\* The "next" entry of completion_details for the event tick() returned,
\* read after tick() has counted the completion.
next_session(res, t, s) ==
    IF res = "work_complete" THEN get_next_break_type(t, s) ELSE "work"

\* _update_loop, once a second: tick(), then on an event the record and the
\* auto-advance. The dialog it shows is modal: no other handler runs inside.
update_loop ==
    LET r == tick(timer)
        next == next_session(r.result, r.timer, settings)
    IN  /\ r.timer.completed_sessions <= MaxCompleted
        /\ r.result = "work_complete" => Len(sessions) < MaxSessions
        /\ sessions' = record_completion(sessions, r.result, today)
        /\ timer' = IF r.result # None /\ settings.auto_start
                    THEN start(set_session(r.timer, settings, next))
                    ELSE r.timer
        /\ result' = r.result
        /\ UNCHANGED <<settings, history, startup, today, stats_window>>

Next ==
    \/ toggle_work
    \/ toggle_break
    \/ reset_timer
    \/ reset_stats
    \/ update_loop
    \/ on_settings_change
    \/ toggle_auto_start

Spec == Init /\ [][Next]_vars

\* config.TIMER_DEFAULTS.
TIMER_DEFAULTS ==
    [work_duration |-> 25, short_break |-> 5, long_break |-> 15,
     sessions_per_long_break |-> 4, auto_start |-> FALSE]

\* ------------------------------------------------------------- StatsWindow

\* date.weekday(): Monday is 0; a date is its number of days since a Monday.
weekday(date) == date % 7

\* The week _update_display shows, taken from the day itself.
week_bounds_from_today(now, week_offset) ==
    LET start_of_week == now + 7 * week_offset
    IN  [start |-> start_of_week, end |-> start_of_week + 6]

\* The week moved by days where the code moves it by weeks.
week_bounds_in_days(now, week_offset) ==
    LET start_of_week == now - weekday(now) + week_offset
    IN  [start |-> start_of_week, end |-> start_of_week + 6]

\* start_of_week and end_of_week of _update_display.
week_bounds(now, week_offset) ==
    LET start_of_week == now - weekday(now) + 7 * week_offset
    IN  [start |-> start_of_week, end |-> start_of_week + 6]

RECURSIVE count_loop(_, _, _, _, _)
\* The loop of _update_display over the sessions from the i-th on.
count_loop(ss, i, start_of_week, end_of_week, counts_per_day) ==
    IF i > Len(ss)
    THEN counts_per_day
    ELSE LET session_date == ss[i]
             day_index == weekday(session_date)
         IN  count_loop(ss, i + 1, start_of_week, end_of_week,
                 IF start_of_week <= session_date /\ session_date <= end_of_week
                 THEN [counts_per_day EXCEPT ![day_index] = @ + 1]
                 ELSE counts_per_day)

\* The counts of a week that ends a day late.
counts_of_eight_days(ss, start_of_week, end_of_week) ==
    count_loop(ss, 1, start_of_week, end_of_week + 1, [day \in 0..6 |-> 0])

\* counts_per_day of _update_display.
counts_of_week(ss, start_of_week, end_of_week) ==
    count_loop(ss, 1, start_of_week, end_of_week, [day \in 0..6 |-> 0])

RECURSIVE sum(_, _)
\* sum(counts_per_day), from day i on.
sum(counts_per_day, i) ==
    IF i > 6 THEN 0 ELSE counts_per_day[i] + sum(counts_per_day, i + 1)

\* What show_stats hands over if it copies the list.
sessions_argument_copied(ss) == [shared |-> FALSE, items |-> ss]

\* What show_stats hands to StatsWindow: the list object of app_data itself.
sessions_argument(ss) == [shared |-> TRUE, items |-> <<>>]

\* The records self.sessions of a StatsWindow denotes.
listed(window, ss) ==
    IF window.sessions.shared THEN ss ELSE window.sessions.items

\* _update_display: the week label, the seven count labels and the total.
\* `seen` is history: how many records the list held.
update_display(window, ss, now) ==
    LET week == week_bounds(now, window.week_offset)
        counts_per_day == counts_of_week(listed(window, ss), week.start, week.end)
    IN  [window EXCEPT !.week_label = week,
                       !.count_labels = counts_per_day,
                       !.total_label = sum(counts_per_day, 0),
                       !.seen = Len(listed(window, ss))]

\* show_stats: StatsWindow.__init__. `opened_with` is history: how many
\* records there were.
show_stats ==
    /\ stats_window' =
           update_display([sessions |-> sessions_argument(sessions),
                           week_offset |-> 0,
                           week_label |-> [start |-> 0, end |-> 0],
                           count_labels |-> [day \in 0..6 |-> 0],
                           total_label |-> 0,
                           seen |-> 0,
                           opened_with |-> Len(sessions)],
                          sessions, today)
    /\ result' = None
    /\ UNCHANGED <<timer, settings, sessions, history, startup, today>>

\* _change_week, from the two navigation buttons.
change_week ==
    \E direction \in {-1, 1} :
        /\ stats_window # Unset
        /\ stats_window.week_offset + direction \in (-MaxOffset)..MaxOffset
        /\ stats_window' =
               update_display([stats_window EXCEPT !.week_offset = @ + direction],
                              sessions, today)
        /\ result' = None
        /\ UNCHANGED <<timer, settings, sessions, history, startup, today>>

\* The clock passes midnight.
midnight ==
    /\ today < MaxStatsDate
    /\ today' = today + 1
    /\ UNCHANGED <<timer, settings, sessions, result, history, startup, stats_window>>

StatsDates == 0..MaxStatsDate

\* The application on its default settings with a work session in its last
\* second, any records in its list and no statistics window yet.
InitStats ==
    /\ settings = TIMER_DEFAULTS
    /\ timer = [NewTimer(settings) EXCEPT !.state = "running", !.time_left = 1]
    /\ sessions \in UNION {[1..n -> StatsDates] : n \in 0..MaxSessions}
    /\ today \in StatsDates
    /\ result = None
    /\ op = Op("init", None)
    /\ run = NoRun
    /\ fired = FALSE
    /\ pc = "ready"
    /\ load = "ok"
    /\ warnings = 0
    /\ stats_window = Unset
    /\ before_pause = Unset

NextStats ==
    \/ show_stats
    \/ change_week
    \/ reset_stats
    \/ update_loop
    \/ midnight

SpecStats == InitStats /\ [][NextStats]_vars

\* ------------------------------------------- the application left to itself

\* The application with auto_start on, an empty list of records and the
\* engine as reset() leaves it.
InitAuto ==
    /\ settings \in {s \in SettingsValues : s.auto_start}
    /\ sessions = <<>>
    /\ timer = NewTimer(settings)
    /\ result = None
    /\ op = Op("init", None)
    /\ run = NoRun
    /\ fired = FALSE
    /\ pc = "ready"
    /\ load = "ok"
    /\ warnings = 0
    /\ today \in Dates
    /\ stats_window = Unset
    /\ before_pause = Unset

\* One press of a start button on the idle engine, then only the update loop,
\* which root.after() runs again every second.
NextAuto ==
    \/ timer.state = "idle" /\ toggle_work
    \/ timer.state = "idle" /\ toggle_break
    \/ update_loop

SpecAuto == InitAuto /\ [][NextAuto]_vars /\ WF_vars(update_loop)

\* ------------------------------------------------- start-up from a data file

\* A dict without one of its keys.
Without(d, key) == [k \in DOMAIN d \ {key} |-> d[k]]

\* The settings a data file may hold: the defaults the application writes,
\* with work_duration as written, edited to another number, or taken out.
FileSettings ==
    {[TIMER_DEFAULTS EXCEPT !.work_duration = v] : v \in (-1)..MaxDuration}
        \cup {TIMER_DEFAULTS, Without(TIMER_DEFAULTS, "work_duration")}

\* What json.load() may return: both fields, or one or both missing.
JsonData ==
    LET whole == {[settings |-> s, sessions |-> ss] :
                      s \in FileSettings, ss \in SessionLists}
        one == [settings |-> TIMER_DEFAULTS, sessions |-> <<>>]
    IN  whole \cup {Without(one, "settings"), Without(one, "sessions"),
                    Without(Without(one, "settings"), "sessions")}

\* The data file as __init__ finds it: absent, not JSON, or JSON.
DataFiles ==
    {[kind |-> "missing"], [kind |-> "malformed"]}
        \cup {[kind |-> "json", data |-> d] : d \in JsonData}

default_data == [settings |-> TIMER_DEFAULTS, sessions |-> <<>>]

\* _load_data: the data it returns and whether it showed its warning.
\* open() raises FileNotFoundError, json.load() JSONDecodeError, and the two
\* subscripts KeyError; nothing else is looked at.
load_data(file) ==
    IF file.kind = "missing" \/ file.kind = "malformed"
    THEN [data |-> default_data, warned |-> TRUE]
    ELSE IF "settings" \notin DOMAIN file.data \/ "sessions" \notin DOMAIN file.data
         THEN [data |-> default_data, warned |-> TRUE]
         ELSE [data |-> file.data, warned |-> FALSE]

\* What is wrong with a data file, for the history.
FailureOf(file) ==
    IF file.kind # "json" THEN file.kind
    ELSE IF "settings" \notin DOMAIN file.data THEN "no_settings"
    ELSE IF "sessions" \notin DOMAIN file.data THEN "no_sessions"
    ELSE IF DOMAIN file.data.settings # DOMAIN TIMER_DEFAULTS THEN "settings_incomplete"
    ELSE "ok"

\* The application before MainWindow.__init__ has run.
InitBoot ==
    /\ pc = "boot"
    /\ load = None
    /\ warnings = 0
    /\ timer = Unset
    /\ settings = Unset
    /\ sessions = <<>>
    /\ result = None
    /\ op = Op("init", None)
    /\ run = NoRun
    /\ fired = FALSE
    /\ today \in Dates
    /\ stats_window = Unset
    /\ before_pause = Unset

\* MainWindow.__init__: _load_data(), then PomodoroTimer(settings), whose
\* reset() reads settings["work_duration"] and raises KeyError without it;
\* then the first _update_loop(), a tick of an idle engine.
MainWindow_init ==
    \E file \in DataFiles :
        LET loaded == load_data(file)
        IN  /\ pc = "boot"
            /\ load' = FailureOf(file)
            /\ warnings' = warnings + (IF loaded.warned THEN 1 ELSE 0)
            /\ settings' = loaded.data.settings
            /\ sessions' = loaded.data.sessions
            /\ IF "work_duration" \in DOMAIN loaded.data.settings
               THEN /\ timer' = tick(NewTimer(loaded.data.settings)).timer
                    /\ pc' = "ready"
               ELSE /\ timer' = Unset
                    /\ pc' = "crashed"
            /\ result' = None
            /\ UNCHANGED <<history, today, stats_window>>

\* Start-up from any data file, then the timer's buttons and its loop.
NextLoad ==
    \/ MainWindow_init
    \/ pc = "ready" /\ toggle_work
    \/ pc = "ready" /\ toggle_break
    \/ pc = "ready" /\ reset_timer
    \/ pc = "ready" /\ update_loop

SpecLoad == InitBoot /\ [][NextLoad]_vars

\* ================================================================ properties

\* The duration that the settings give a session type, in seconds.
FullDuration(s, session_type) ==
    SecondsPerMinute *
        (CASE session_type = "work" -> s.work_duration
           [] session_type = "short_break" -> s.short_break
           [] session_type = "long_break" -> s.long_break)

\* C1: completed_sessions changes in two ways only: it goes up by exactly 1
\* in the tick that takes a running work session from time_left 1 to 0, and
\* reset() sets it to 0; no break completion, pause, set_session, manual
\* switch, settings change or reset_stats changes it.
C1_CompletedChangesTwoWays ==
    [][timer'.completed_sessions # timer.completed_sessions =>
        \/ /\ timer'.completed_sessions = timer.completed_sessions + 1
           /\ timer.state = "running"
           /\ timer.session_type = "work"
           /\ timer.time_left = 1
           /\ result' = "work_complete"
        \/ /\ timer'.completed_sessions = 0
           /\ reset_timer]_vars

C1_Witness ==
    /\ result = "work_complete"
    /\ timer.completed_sessions = MaxCompleted

\* C2: the stored sequence is append-only: a step whose tick returned
\* work_complete appends exactly one record, and any other step either
\* leaves the sequence alone or is a confirmed reset_stats that empties it.
C2_SessionsAppendOnly ==
    [][/\ result' = "work_complete" =>
            \E d \in Dates : sessions' = Append(sessions, d)
       /\ result' # "work_complete" =>
            \/ sessions' = sessions
            \/ sessions' = <<>> /\ reset_stats]_vars

C2_Witness ==
    /\ result = "work_complete"
    /\ Len(sessions) = MaxSessions

\* C3: after reset(), start() and k ticks, k < D*60, the countdown shows
\* D*60 - k, the engine is running and none of the ticks returned an event.
C3_CountdownAfterReset ==
    (run.phase = "started" /\ run.by = "reset" /\ run.k < run.D * SecondsPerMinute) =>
        /\ timer.time_left = run.D * SecondsPerMinute - run.k
        /\ timer.state = "running"
        /\ run.ev = 0

C3_Witness ==
    /\ run.phase = "started"
    /\ run.by = "reset"
    /\ run.D = MaxDuration
    /\ run.k = run.D * SecondsPerMinute - 1

\* C4: a fresh work session of D minutes, started and ticked D*60 times,
\* returns work_complete on the last tick and on no tick before it, and ends
\* idle with completed_sessions one higher than when the session was loaded.
C4_WorkCompletesOnce ==
    (run.phase = "started" /\ timer.session_type = "work") =>
        /\ run.k < run.D * SecondsPerMinute => run.ev = 0
        /\ run.k = run.D * SecondsPerMinute =>
            /\ run.ev = 1
            /\ result = "work_complete"
            /\ timer.state = "idle"
            /\ timer.completed_sessions = run.c0 + 1

C4_Witness ==
    /\ run.phase = "started"
    /\ run.by = "set_session"
    /\ timer.session_type = "work"
    /\ run.c0 = 1
    /\ run.k = run.D * SecondsPerMinute

\* C5: once a tick has returned an event, no tick returns another one,
\* whatever start() and pause() calls come between, until set_session() or
\* reset() loads a new countdown.
C5_EventOncePerCompletion ==
    [][(fired /\ op'.name = "tick") => result' = None]_vars

C5_Witness ==
    /\ fired
    /\ op.name = "tick"
    /\ timer.state = "running"

\* A positive multiple of n.
PositiveMultiple(c, n) == \E m \in 1..c : c = m * n

\* C6: get_next_break_type() changes no field of the engine and returns
\* long_break exactly when completed_sessions is a positive multiple of
\* sessions_per_long_break, short_break otherwise (so for 0 as well).
C6_NextBreakType ==
    [][op'.name = "get_next_break_type" =>
        /\ timer' = timer
        /\ result' = IF PositiveMultiple(timer.completed_sessions,
                                         settings.sessions_per_long_break)
                     THEN "long_break"
                     ELSE "short_break"]_vars

C6_Witness ==
    /\ op.name = "get_next_break_type"
    /\ timer.completed_sessions = 2
    /\ settings.sessions_per_long_break = 2
    /\ result = "long_break"

\* C7 as stated: after the first completed work session
\* (completed_sessions = 1) get_next_break_type() returns short_break for
\* every cadence, a cadence of 1 included.
C7_FirstBreakAlwaysShort ==
    (op.name = "get_next_break_type" /\ timer.completed_sessions = 1) =>
        result = "short_break"

\* C7 amended: after the first completed work session get_next_break_type()
\* returns short_break for every cadence above 1 and long_break for a
\* cadence of 1.
C7_FirstBreakByCadence ==
    (op.name = "get_next_break_type" /\ timer.completed_sessions = 1) =>
        result = IF settings.sessions_per_long_break = 1
                 THEN "long_break"
                 ELSE "short_break"

C7_Witness ==
    /\ op.name = "get_next_break_type"
    /\ timer.completed_sessions = 1
    /\ settings.sessions_per_long_break = 1
    /\ result = "long_break"

\* C8: whenever a session starts (the state goes from idle to running, or
\* the update loop auto-advances into a running session), time_left is the
\* full duration the settings in force give the session type.
C8_StartsOnFullDuration ==
    [][(\/ timer.state = "idle" /\ timer'.state = "running"
        \/ result' # None /\ timer'.state = "running") =>
            timer'.time_left = FullDuration(settings', timer'.session_type)]_vars

\* C9: set_session(t), from any state and any countdown, leaves the engine
\* idle in session type t on t's full configured duration, with
\* completed_sessions as it was.
C9_SetSession ==
    [][op'.name = "set_session" =>
        /\ timer'.state = "idle"
        /\ timer'.session_type = op'.arg.session_type
        /\ timer'.time_left = FullDuration(settings, op'.arg.session_type)
        /\ timer'.completed_sessions = timer.completed_sessions]_vars

C9_Witness ==
    /\ op.name = "set_session"
    /\ op.arg.session_type = "long_break"
    /\ op.arg.from = "running"
    /\ op.arg.mid
    /\ settings.long_break # settings.work_duration
    /\ timer.completed_sessions = 1

\* C10: a tick on a paused engine returns no event and changes no field:
\* time_left, state, session_type and completed_sessions stay as they were.
C10_PausedTickChangesNothing ==
    [][(timer.state = "paused" /\ op'.name = "tick") =>
        /\ timer' = timer
        /\ result' = None]_vars

C10_Witness ==
    /\ op.name = "tick"
    /\ timer.state = "paused"
    /\ 0 < timer.time_left
    /\ timer.time_left < FullDuration(settings, timer.session_type)

\* C11: start() leaves the engine running, from idle and from paused, and
\* changes nothing when it runs already; time_left, session_type and
\* completed_sessions stay as they were in every case.
C11_Start ==
    [][op'.name = "start" =>
        /\ timer'.state = "running"
        /\ timer.state = "running" => timer' = timer
        /\ timer'.time_left = timer.time_left
        /\ timer'.session_type = timer.session_type
        /\ timer'.completed_sessions = timer.completed_sessions]_vars

C11_Witness ==
    /\ op.name = "start"
    /\ op.arg = "paused"
    /\ timer.state = "running"
    /\ 0 < timer.time_left
    /\ timer.time_left < FullDuration(settings, timer.session_type)

\* C12: pause() turns running into paused and changes nothing in an idle or
\* a paused engine; time_left, session_type and completed_sessions stay as
\* they were in every case.
C12_Pause ==
    [][op'.name = "pause" =>
        /\ timer.state = "running" => timer'.state = "paused"
        /\ timer.state # "running" => timer' = timer
        /\ timer'.time_left = timer.time_left
        /\ timer'.session_type = timer.session_type
        /\ timer'.completed_sessions = timer.completed_sessions]_vars

C12_Witness ==
    /\ op.name = "pause"
    /\ op.arg = "idle"
    /\ timer.state = "idle"
    /\ timer.completed_sessions = 1

\* C13: reset(), from any state of the engine, leaves it idle on a work
\* session of work_duration * 60 seconds with completed_sessions 0, and it
\* can always be called.
C13_Reset ==
    /\ [][op'.name = "reset" =>
            /\ timer'.state = "idle"
            /\ timer'.session_type = "work"
            /\ timer'.time_left = settings.work_duration * SecondsPerMinute
            /\ timer'.completed_sessions = 0]_vars
    /\ [](ENABLED Call_reset)

C13_Witness ==
    /\ op.name = "reset"
    /\ op.arg = "running"
    /\ fired = FALSE
    /\ run.by = "reset"
    /\ run.c0 = 0
    /\ timer.completed_sessions = 0

\* C14: the update-loop step that receives an event. With auto_start on it
\* leaves the engine running: after work_complete in the break that the
\* count including this completion selects, after break_complete in a work
\* session, each on its full duration. With auto_start off it leaves the
\* engine idle in the session type that just finished.
C14_AutoAdvance ==
    [][result' # None =>
        IF settings.auto_start
        THEN /\ timer'.state = "running"
             /\ result' = "work_complete" =>
                    /\ timer'.completed_sessions = timer.completed_sessions + 1
                    /\ timer'.session_type =
                           IF PositiveMultiple(timer'.completed_sessions,
                                               settings.sessions_per_long_break)
                           THEN "long_break"
                           ELSE "short_break"
             /\ result' = "break_complete" => timer'.session_type = "work"
             /\ timer'.time_left = FullDuration(settings, timer'.session_type)
        ELSE /\ timer'.state = "idle"
             /\ timer'.session_type = timer.session_type]_vars

C14_Witness ==
    /\ result = "work_complete"
    /\ settings.auto_start
    /\ timer.state = "running"
    /\ timer.session_type = "long_break"
    /\ settings.sessions_per_long_break = 2
    /\ settings.long_break # settings.work_duration

\* C15: in every state of the running application the four numeric
\* settings the engine sees are strictly positive integers, whatever the
\* settings entries were given and whatever the data file held.
C15_SettingsPositive ==
    pc = "ready" =>
        \A key \in SettingKeys : settings[key] \in Nat /\ settings[key] > 0

\* C16: whatever is wrong with the data file (absent, not JSON, a field
\* missing at the top level or inside settings), start-up ends with the
\* default settings, no records, exactly one warning and an engine built
\* on the defaults.
C16_LoadFailureGivesDefaults ==
    [][(pc = "boot" /\ pc' # "boot" /\ load' # "ok") =>
        /\ pc' = "ready"
        /\ warnings' = 1
        /\ settings' = TIMER_DEFAULTS
        /\ sessions' = <<>>
        /\ timer' = NewTimer(TIMER_DEFAULTS)]_vars

\* The records a statistics window reads, after a step that refreshed it.
Refreshed == stats_window' # stats_window

\* How many of the records bear a date in the set.
Dated(ss, dates) == Cardinality({j \in DOMAIN ss : ss[j] \in dates})

\* C17: whenever the statistics window computes its display, there are
\* seven counts, the i-th (Monday = 0 ... Sunday = 6) is the number of
\* sessions dated start + i, so a session dated outside [start, end] adds to
\* none, and the total is the number of sessions dated within [start, end].
C17_WeeklyCounts ==
    [][Refreshed =>
        LET window == stats_window'
            ss == listed(window, sessions')
            week == window.week_label
        IN  /\ DOMAIN window.count_labels = 0..6
            /\ \A i \in 0..6 :
                   window.count_labels[i] = Dated(ss, {week.start + i})
            /\ window.total_label = Dated(ss, week.start..week.end)]_vars

\* A display over two sessions, one on the Sunday of the week shown and one
\* outside that week.
C17_Witness ==
    /\ stats_window # Unset
    /\ stats_window.seen = 2
    /\ Len(sessions) = 2
    /\ stats_window.count_labels[6] = 1
    /\ stats_window.total_label = 1

\* The most recent Monday on or before a date.
MondayOnOrBefore(date) == CHOOSE m \in (date - 6)..date : weekday(m) = 0

\* C18: whenever the statistics window computes its display, the week starts
\* on the most recent Monday on or before today moved by 7 * week_offset
\* days, which is a Monday, ends 6 days later, a Sunday, and with week_offset
\* 0 contains today.
C18_WeekBounds ==
    [][Refreshed =>
        LET window == stats_window'
            week == window.week_label
        IN  /\ week.start = MondayOnOrBefore(today') + 7 * window.week_offset
            /\ weekday(week.start) = 0
            /\ week.end = week.start + 6
            /\ weekday(week.end) = 6
            /\ window.week_offset = 0
                   => week.start <= today' /\ today' <= week.end]_vars

\* A display of the week before this one, computed on a Thursday.
C18_Witness ==
    /\ stats_window # Unset
    /\ stats_window.week_offset = -1
    /\ weekday(today) = 3
    /\ stats_window.week_label = [start |-> today - 10, end |-> today - 4]

C20_EngineFieldsInRange ==
    pc = "ready" =>
        /\ timer.state \in States
        /\ timer.session_type \in SessionTypes
        /\ timer.time_left >= 0
        /\ timer.completed_sessions >= 0

\* C21: no sequence of button presses and ticks leaves the engine running
\* with nothing left to count, where tick() does nothing and no completion
\* event can come.
C21_RunningHasTimeLeft ==
    timer.state = "running" => timer.time_left > 0

Toggled(state) == IF state = "running" THEN "paused" ELSE "running"

\* C23: toggle_work always leaves a work session and toggle_break a short or
\* long break. Pressed in a session of the other kind, in any state, the
\* button discards that session's countdown and leaves the engine running on
\* the full duration of the new session, which for toggle_break is the break
\* the count of completed sessions selects; pressed in a session of its own
\* kind it only switches running to paused and idle or paused to running, and
\* keeps time_left and the session type. Neither changes the count.
C23_Toggles ==
    /\ [][toggle_work =>
            /\ timer'.session_type = "work"
            /\ timer'.completed_sessions = timer.completed_sessions
            /\ IF timer.session_type # "work"
               THEN /\ timer'.state = "running"
                    /\ timer'.time_left = FullDuration(settings, "work")
               ELSE /\ timer'.state = Toggled(timer.state)
                    /\ timer'.time_left = timer.time_left]_vars
    /\ [][toggle_break =>
            /\ timer'.session_type \in {"short_break", "long_break"}
            /\ timer'.completed_sessions = timer.completed_sessions
            /\ IF timer.session_type = "work"
               THEN /\ timer'.state = "running"
                    /\ timer'.session_type =
                           IF PositiveMultiple(timer.completed_sessions,
                                               settings.sessions_per_long_break)
                           THEN "long_break"
                           ELSE "short_break"
                    /\ timer'.time_left = FullDuration(settings, timer'.session_type)
               ELSE /\ timer'.session_type = timer.session_type
                    /\ timer'.state = Toggled(timer.state)
                    /\ timer'.time_left = timer.time_left]_vars

\* A work session running on its full duration after one completed work
\* session, with no event and auto_start off: Start Work pressed during the
\* break that followed.
C23_Witness ==
    /\ ~settings.auto_start
    /\ result = None
    /\ timer.state = "running"
    /\ timer.session_type = "work"
    /\ timer.completed_sessions = 1
    /\ timer.time_left = FullDuration(settings, "work")
    /\ settings.work_duration # settings.short_break

\* C24: pause() on a running engine followed by start(), with any number
\* of tick() calls in between, gives back the running engine as it was:
\* the same time_left, session_type and completed_sessions. All through the
\* pause the engine differs from it in state alone; and within a countdown
\* time_left changes only by one, in a tick() on a running engine, so the
\* number of ticks that count a session down does not depend on its pauses.
C24_PauseResume ==
    /\ [](before_pause # Unset =>
            timer = IF before_pause.resumed
                    THEN before_pause.timer
                    ELSE [before_pause.timer EXCEPT !.state = "paused"])
    /\ [][before_pause # Unset /\ op'.name = "start" =>
            /\ before_pause.timer.state = "running"
            /\ timer' = before_pause.timer]_vars
    /\ [][op'.name \notin {"reset", "set_session"} =>
            \/ timer'.time_left = timer.time_left
            \/ /\ op'.name = "tick"
               /\ timer.state = "running"
               /\ timer'.time_left = timer.time_left - 1]_vars

\* A session paused in the middle of its countdown, ticked while paused and
\* resumed.
C24_Witness ==
    /\ before_pause # Unset
    /\ before_pause.resumed
    /\ before_pause.ticked
    /\ op.name = "start"
    /\ timer.state = "running"
    /\ 0 < timer.time_left
    /\ timer.time_left < FullDuration(settings, timer.session_type)

\* C25: the two resets are independent. reset_timer, and any step that
\* lowers completed_sessions, leaves the stored records and the settings as
\* they were; reset_stats, and any step that shortens the list of records,
\* leaves state, session_type, time_left and completed_sessions as they were.
C25_ResetsIndependent ==
    /\ [][reset_timer \/ timer'.completed_sessions < timer.completed_sessions =>
            /\ sessions' = sessions
            /\ settings' = settings]_vars
    /\ [][reset_stats \/ Len(sessions') < Len(sessions) =>
            /\ timer' = timer
            /\ settings' = settings]_vars

\* Two work sessions were completed and counted, and the records were
\* cleared since: the count and the number of records differ.
C25_Witness ==
    /\ timer.completed_sessions = 2
    /\ sessions = <<>>

\* C26: a settings change, accepted or rejected, in any engine state leaves
\* state, session_type, time_left and completed_sessions as they are. A
\* countdown goes on from where it is: time_left changes only by a tick or
\* by a load, and every load (reset_timer, or a step into another session
\* type) takes the full duration under the settings then in force; every
\* step from a work session into a break picks the break by the
\* sessions_per_long_break then in force.
C26_SettingsChange ==
    /\ [][on_settings_change \/ settings' # settings => timer' = timer]_vars
    /\ [][timer'.time_left \notin {timer.time_left, timer.time_left - 1}
          \/ timer'.session_type # timer.session_type
          \/ reset_timer =>
            timer'.time_left = FullDuration(settings, timer'.session_type)]_vars
    /\ [][timer.session_type = "work" /\ timer'.session_type # "work" =>
            timer'.session_type =
                IF PositiveMultiple(timer'.completed_sessions,
                                    settings.sessions_per_long_break)
                THEN "long_break"
                ELSE "short_break"]_vars

\* A paused work session with more time left than the work duration now in
\* force gives: the duration was lowered during the countdown.
C26_Witness ==
    /\ timer.state = "paused"
    /\ timer.session_type = "work"
    /\ timer.time_left > FullDuration(settings, "work")
    /\ result = None

\* The weekly total _update_display computes over the records for a week
\* offset.
WeekTotal(ss, now, week_offset) ==
    LET week == week_bounds(now, week_offset)
    IN  sum(counts_of_week(ss, week.start, week.end), 0)

RECURSIVE TotalOver(_, _, _, _)
\* The weekly totals of the offsets from..to, added up.
TotalOver(ss, now, from, to) ==
    IF from > to
    THEN 0
    ELSE WeekTotal(ss, now, from) + TotalOver(ss, now, from + 1, to)

\* C27: for the date the clock shows, the weeks of the different offsets
\* partition the calendar: each stored record is counted under exactly one
\* offset, and over a range of offsets that covers every record's date the
\* weekly totals add up to the number of records.
C27_WeeksPartition ==
    stats_window # Unset =>
        LET ss == listed(stats_window, sessions)
            offsets == (-MaxOffset)..MaxOffset
        IN  /\ \A j \in DOMAIN ss :
                   Cardinality({o \in offsets : WeekTotal(<<ss[j]>>, today, o) = 1}) = 1
            /\ \A j \in DOMAIN ss, o \in offsets : WeekTotal(<<ss[j]>>, today, o) <= 1
            /\ TotalOver(ss, today, -MaxOffset, MaxOffset) = Len(ss)

\* A Sunday's record and the next Monday's: the window shows the week after
\* this one and counts the second of them only.
C27_Witness ==
    /\ stats_window # Unset
    /\ sessions = <<6, 7>>
    /\ today <= 6
    /\ stats_window.week_offset = 1
    /\ stats_window.seen = 2
    /\ stats_window.total_label = 1
    /\ stats_window.count_labels[0] = 1

====
